---- MODULE Spec2Model ----
(***************************************************************************)
(* Generic class-based admin views of wagtail/admin/views/generic.py:      *)
(* PermissionCheckedMixin, HookResponseMixin, IndexView, CreateView,       *)
(* EditView and DeleteView.  One request is processed at a time; every     *)
(* call the view makes on a collaborator (permission policy, form/ORM,     *)
(* messages, reverse, redirect, hooks) is recorded in an event log.        *)
(***************************************************************************)
EXTENDS Integers, Sequences, FiniteSets, TLC

\* ------------------------------------------------------------------ bounds
MaxObjects == 2      \* primary keys handed out by the database
MaxHooks == 2        \* callables registered under one hook name

\* --------------------------------------------------------------- constants
None == "None"
Actions == {"add", "change", "delete"}
Titles == {"a", "b"}
Methods == {"GET", "POST"}
Classes == {"IndexView", "CreateView", "EditView", "DeleteView"}
HookNames == {"before_edit", "after_edit"}
HookArgs == {"x", "y"}

VARIABLES view, pc, db, db0, nextId, object, events, response,
          registry, hookPc, hookCall, hookIdx, invoked, hookResult

viewVars == <<view, pc, db, db0, nextId, object, events, response>>
hookVars == <<registry, hookPc, hookCall, hookIdx, invoked, hookResult>>
vars == <<view, pc, db, db0, nextId, object, events, response,
          registry, hookPc, hookCall, hookIdx, invoked, hookResult>>

\* ------------------------------------------------------------ data values
NoUrl == [name |-> None, arg |-> 0]
NoText == [isNone |-> TRUE, tmpl |-> None, arg |-> None]
NoObject == [id |-> 0, title |-> None]
Absent == [type |-> "absent", items |-> <<>>]

\* a Python bool and a Python tuple of bools, as put in a template context
PyBool(b) == [type |-> "bool", items |-> <<b>>]
PyTuple(s) == [type |-> "tuple", items |-> s]

\* Python truth value: a bool is its value, a tuple is true when non-empty
Truthy(v) ==
    IF v.type = "bool" THEN v.items[1]
    ELSE IF v.type = "tuple" THEN Len(v.items) > 0
    ELSE FALSE

Event(op) ==
    [op |-> op, action |-> None, ok |-> TRUE, text |-> NoText,
     url |-> NoUrl, id |-> 0, title |-> None]

Resp(kind) ==
    [kind |-> kind, url |-> NoUrl, can_add |-> Absent, can_delete |-> Absent]

\* ------------------------------------------------- external collaborators
\* permission policy: grants is the set of actions the policy allows the
\* request's user
user_has_permission(policy, action) == action \in policy.grants

user_has_any_permission(policy, actions) ==
    \E a \in actions : a \in policy.grants

\* URL reversal: a URL is determined by the URL name and the argument
reverse(name, arg) == [name |-> name, arg |-> arg]

\* reverse() of an unset URL name raises NoReverseMatch
ReverseFails(name) == name = None

\* str.format of a message template with the instance
Format(tmpl, obj) == [isNone |-> FALSE, tmpl |-> tmpl, arg |-> obj.title]

\* ------------------------------------------------------ class configuration
NoPolicy == [configured |-> FALSE, grants |-> {}]
Policies == {NoPolicy} \cup {[configured |-> TRUE, grants |-> g] : g \in SUBSET Actions}

AnyNone == [isNone |-> TRUE, actions |-> {}]
AnyOf(s) == [isNone |-> FALSE, actions |-> s]

\* class attribute defaults
DefaultPermissionRequired(cls) ==
    CASE cls = "IndexView" -> None
      [] cls = "CreateView" -> "add"
      [] cls = "EditView" -> "change"
      [] cls = "DeleteView" -> "delete"

DefaultAnyPermissionRequired(cls) ==
    IF cls = "IndexView" THEN AnyOf({"add", "change", "delete"}) ELSE AnyNone

\* attributes a subclass may set; the class defaults (every URL name and
\* message template None) are among them
Configs ==
    { [cls |-> c, permission_policy |-> p, permission_required |-> pr,
       any_permission_required |-> ap, success_message |-> sm,
       error_message |-> em, index_url_name |-> iu, edit_url_name |-> eu] :
        c \in Classes, p \in Policies,
        pr \in {None, "add", "change", "delete"},
        ap \in {AnyNone, AnyOf({"add", "change", "delete"}),
                AnyOf({"change", "delete"})},
        sm \in {None, "saved {0}"}, em \in {None, "invalid"},
        iu \in {None, "index"}, eu \in {None, "edit"} }

IdleView ==
    [cls |-> "IndexView", permission_policy |-> NoPolicy,
     permission_required |-> None,
     any_permission_required |-> AnyOf({"add", "change", "delete"}),
     success_message |-> None, error_message |-> None,
     index_url_name |-> None, edit_url_name |-> None]

ValidConfig(v) ==
    /\ v.permission_required \in {None, DefaultPermissionRequired(v.cls)}
    /\ (v.cls = "IndexView" => v.success_message = None)
    /\ (v.cls \in {"IndexView", "DeleteView"} =>
            v.error_message = None /\ v.edit_url_name = None)

ViewConfigs == {v \in Configs : ValidConfig(v)}

\* ------------------------------------------- PermissionCheckedMixin.dispatch
PermissionRequiredDenied(v) ==
    /\ v.permission_required # None
    /\ ~user_has_permission(v.permission_policy, v.permission_required)

\* variant: the negation of the any-permission test is lost
AnyPermissionRequiredDenied_Inverted(v) ==
    /\ ~v.any_permission_required.isNone
    /\ user_has_any_permission(v.permission_policy,
                               v.any_permission_required.actions)

AnyPermissionRequiredDenied(v) ==
    /\ ~v.any_permission_required.isNone
    /\ ~user_has_any_permission(v.permission_policy,
                                v.any_permission_required.actions)

\* variant: the permission_required test is left out
Denied_AnyOnly(v) ==
    /\ v.permission_policy.configured
    /\ AnyPermissionRequiredDenied(v)

Denied(v) ==
    /\ v.permission_policy.configured
    /\ (PermissionRequiredDenied(v) \/ AnyPermissionRequiredDenied(v))

\* the policy calls dispatch makes, in order
CheckEvents(v) ==
    IF ~v.permission_policy.configured THEN <<>>
    ELSE
      LET first ==
            IF v.permission_required = None THEN <<>>
            ELSE << [Event("user_has_permission") EXCEPT
                       !.action = v.permission_required,
                       !.ok = ~PermissionRequiredDenied(v)] >>
          second ==
            IF PermissionRequiredDenied(v) \/ v.any_permission_required.isNone
            THEN <<>>
            ELSE << [Event("user_has_any_permission") EXCEPT
                       !.ok = ~AnyPermissionRequiredDenied(v)] >>
      IN first \o second

\* the handler the framework's dispatch selects for the request method
Handler(cls, method) ==
    CASE method = "GET" -> "get"
      [] method = "POST" /\ cls = "IndexView" -> "not_allowed"
      [] method = "POST" /\ cls \in {"CreateView", "EditView"} -> "post"
      [] method = "POST" /\ cls = "DeleteView" -> "delete"

\* ------------------------------------------------------- get_context_data
IndexContext(v) ==
    PyBool(\/ ~v.permission_policy.configured
           \/ user_has_permission(v.permission_policy, "add"))

EditContext(v) ==
    PyTuple(<< \/ ~v.permission_policy.configured
               \/ user_has_permission(v.permission_policy, "delete") >>)

\* ------------------------------------------------------ message getters
\* variant: the None guard is left out
get_success_message_Unguarded(v, obj) == Format(v.success_message, obj)

get_success_message(v, obj) ==
    IF v.success_message = None THEN NoText
    ELSE Format(v.success_message, obj)

\* variant: the None guard is left out
get_error_message_Unguarded(v) ==
    [isNone |-> FALSE, tmpl |-> v.error_message, arg |-> None]

get_error_message(v) ==
    IF v.error_message = None THEN NoText
    ELSE [isNone |-> FALSE, tmpl |-> v.error_message, arg |-> None]

\* variant: the success URL is resolved from the edit URL name
get_success_url_Edit(v) == reverse(v.edit_url_name, 0)

get_success_url(v) == reverse(v.index_url_name, 0)

\* variant: the Edit button is built without the object's id
EditButtonUrl_NoId(v, obj) == reverse(v.edit_url_name, 0)

\* the target of the success message's Edit button
EditButtonUrl(v, obj) == reverse(v.edit_url_name, obj.id)

\* ================================================================ Init
Init ==
    /\ view = IdleView
    /\ pc = "idle"
    /\ db = <<>>
    /\ db0 = <<>>
    /\ nextId = 1
    /\ object = NoObject
    /\ events = <<>>
    /\ response = Resp("none")
    /\ registry = [n \in HookNames |-> <<>>]
    /\ hookPc = "startup"
    /\ hookCall = [name |-> None, arg |-> None]
    /\ hookIdx = 0
    /\ invoked = <<>>
    /\ hookResult = [type |-> "NoneType", attrs |-> {}, src |-> 0]

\* ============================================================ view actions
\* the framework instantiates the configured view class for a new request
StartRequest ==
    /\ pc = "idle"
    /\ \E v \in ViewConfigs : view' = v
    /\ pc' = "dispatch"
    /\ db0' = db
    /\ object' = NoObject
    /\ events' = <<>>
    /\ response' = Resp("none")
    /\ UNCHANGED <<db, nextId>>
    /\ UNCHANGED hookVars

\* PermissionCheckedMixin.dispatch: the permission checks, then the
\* framework's dispatch, which selects the handler for the request method
Dispatch ==
    /\ pc = "dispatch"
    /\ IF Denied(view)
       THEN /\ events' = events \o CheckEvents(view)
            /\ response' = Resp("PermissionDenied")
            /\ pc' = "done"
       ELSE \E m \in Methods :
              /\ events' = events \o CheckEvents(view)
                             \o << [Event("super_dispatch") EXCEPT !.action = m] >>
              /\ IF Handler(view.cls, m) = "not_allowed"
                 THEN /\ response' = Resp("MethodNotAllowed")
                      /\ pc' = "done"
                 ELSE /\ response' = response
                      /\ pc' = Handler(view.cls, m)
    /\ UNCHANGED <<view, db, db0, nextId, object>>
    /\ UNCHANGED hookVars

\* IndexView GET: the list is rendered with IndexView.get_context_data
IndexGet ==
    /\ pc = "get"
    /\ view.cls = "IndexView"
    /\ response' = [Resp("render") EXCEPT !.can_add = IndexContext(view)]
    /\ pc' = "done"
    /\ UNCHANGED <<view, db, db0, nextId, object, events>>
    /\ UNCHANGED hookVars

\* CreateView GET: the empty form is rendered
CreateGet ==
    /\ pc = "get"
    /\ view.cls = "CreateView"
    /\ response' = Resp("render")
    /\ pc' = "done"
    /\ UNCHANGED <<view, db, db0, nextId, object, events>>
    /\ UNCHANGED hookVars

\* EditView GET: get_object, then the form is rendered with
\* EditView.get_context_data
EditGet ==
    /\ pc = "get"
    /\ view.cls = "EditView"
    /\ \E pk \in 1..MaxObjects :
          IF pk \in DOMAIN db
          THEN /\ object' = [id |-> pk, title |-> db[pk]]
               /\ response' = [Resp("render") EXCEPT !.can_delete = EditContext(view)]
          ELSE /\ object' = object
               /\ response' = Resp("Http404")
    /\ pc' = "done"
    /\ UNCHANGED <<view, db, db0, nextId, events>>
    /\ UNCHANGED hookVars

\* DeleteView GET: get_object, then the confirmation page is rendered
DeleteGet ==
    /\ pc = "get"
    /\ view.cls = "DeleteView"
    /\ \E pk \in 1..MaxObjects :
          IF pk \in DOMAIN db
          THEN /\ object' = [id |-> pk, title |-> db[pk]]
               /\ response' = Resp("render")
          ELSE /\ object' = object
               /\ response' = Resp("Http404")
    /\ pc' = "done"
    /\ UNCHANGED <<view, db, db0, nextId, events>>
    /\ UNCHANGED hookVars

\* CreateView / EditView POST: the form is bound and validated, and the
\* framework calls form_valid or form_invalid
Post ==
    /\ pc = "post"
    /\ \E pk \in 1..MaxObjects, valid \in BOOLEAN :
          IF view.cls = "EditView" /\ pk \notin DOMAIN db
          THEN /\ object' = object
               /\ response' = Resp("Http404")
               /\ events' = events
               /\ pc' = "done"
          ELSE /\ object' = IF view.cls = "EditView"
                            THEN [id |-> pk, title |-> db[pk]]
                            ELSE NoObject
               /\ response' = response
               /\ events' = Append(events, [Event("is_valid") EXCEPT !.ok = valid])
               /\ pc' = IF valid THEN "form_valid" ELSE "form_invalid"
    /\ UNCHANGED <<view, db, db0, nextId>>
    /\ UNCHANGED hookVars

\* form_valid, first statement pair: self.object = self.save_instance()
SaveInstance ==
    /\ pc = "form_valid"
    /\ \/ \* form.save() raises
          /\ events' = Append(events, [Event("save_instance") EXCEPT !.ok = FALSE])
          /\ response' = Resp("SaveError")
          /\ pc' = "done"
          /\ UNCHANGED <<db, nextId, object>>
       \/ \* CreateView: a new row with a fresh primary key
          /\ view.cls = "CreateView"
          /\ nextId <= MaxObjects
          /\ \E t \in Titles :
                /\ db' = [i \in DOMAIN db \cup {nextId} |->
                             IF i = nextId THEN t ELSE db[i]]
                /\ object' = [id |-> nextId, title |-> t]
                /\ events' = Append(events, [Event("save_instance") EXCEPT
                                               !.id = nextId, !.title = t])
          /\ nextId' = nextId + 1
          /\ pc' = "message"
          /\ UNCHANGED response
       \/ \* EditView: the fetched row is updated
          /\ view.cls = "EditView"
          /\ \E t \in Titles :
                /\ db' = [db EXCEPT ![object.id] = t]
                /\ object' = [object EXCEPT !.title = t]
                /\ events' = Append(events, [Event("save_instance") EXCEPT
                                               !.id = object.id, !.title = t])
          /\ pc' = "message"
          /\ UNCHANGED <<nextId, response>>
    /\ UNCHANGED <<view, db0>>
    /\ UNCHANGED hookVars

\* form_valid, the success message with its Edit button
SuccessMessage ==
    /\ pc = "message"
    /\ LET success_message == get_success_message(view, object)
       IN IF success_message.isNone
          THEN /\ pc' = "redirect"
               /\ UNCHANGED <<events, response>>
          ELSE IF ReverseFails(view.edit_url_name)
          THEN /\ response' = Resp("NoReverseMatch")
               /\ pc' = "done"
               /\ UNCHANGED events
          ELSE /\ events' = Append(events, [Event("messages.success") EXCEPT
                              !.text = success_message,
                              !.url = EditButtonUrl(view, object)])
               /\ pc' = "redirect"
               /\ UNCHANGED response
    /\ UNCHANGED <<view, db, db0, nextId, object>>
    /\ UNCHANGED hookVars

\* form_valid, last statement: return redirect(self.get_success_url())
Redirect ==
    /\ pc = "redirect"
    /\ IF ReverseFails(view.index_url_name)
       THEN /\ response' = Resp("NoReverseMatch")
            /\ UNCHANGED events
       ELSE /\ response' = [Resp("redirect") EXCEPT !.url = get_success_url(view)]
            /\ events' = Append(events, [Event("redirect") EXCEPT
                                           !.url = get_success_url(view)])
    /\ pc' = "done"
    /\ UNCHANGED <<view, db, db0, nextId, object>>
    /\ UNCHANGED hookVars

\* form_invalid: the optional error message, then the framework re-renders
\* the bound form
FormInvalid ==
    /\ pc = "form_invalid"
    /\ LET error_message == get_error_message(view)
       IN events' = IF error_message.isNone THEN events
                    ELSE Append(events, [Event("messages.error") EXCEPT
                                           !.text = error_message])
    /\ response' = IF view.cls = "EditView"
                   THEN [Resp("render") EXCEPT !.can_delete = EditContext(view)]
                   ELSE Resp("render")
    /\ pc' = "done"
    /\ UNCHANGED <<view, db, db0, nextId, object>>
    /\ UNCHANGED hookVars

\* DeleteView.delete, first statement: the framework's delete() fetches the
\* object, resolves the success URL, deletes the row and builds the redirect
Delete ==
    /\ pc = "delete"
    /\ \E pk \in 1..MaxObjects :
          IF pk \notin DOMAIN db
          THEN /\ response' = Resp("Http404")
               /\ pc' = "done"
               /\ UNCHANGED <<db, object, events>>
          ELSE IF ReverseFails(view.index_url_name)
          THEN /\ response' = Resp("NoReverseMatch")
               /\ object' = [id |-> pk, title |-> db[pk]]
               /\ pc' = "done"
               /\ UNCHANGED <<db, events>>
          ELSE /\ db' = [i \in DOMAIN db \ {pk} |-> db[i]]
               /\ object' = [id |-> pk, title |-> db[pk]]
               /\ events' = events \o
                    << [Event("delete") EXCEPT !.id = pk, !.title = db[pk]],
                       [Event("redirect") EXCEPT !.url = get_success_url(view)] >>
               /\ response' = [Resp("redirect") EXCEPT !.url = get_success_url(view)]
               /\ pc' = "delete_message"
    /\ UNCHANGED <<view, db0, nextId>>
    /\ UNCHANGED hookVars

\* variant: the success message is sent twice
DeleteMessage_Twice ==
    /\ pc = "delete_message"
    /\ events' = events \o
          << [Event("messages.success") EXCEPT
                !.text = get_success_message(view, object)],
             [Event("messages.success") EXCEPT
                !.text = get_success_message(view, object)] >>
    /\ pc' = "done"
    /\ UNCHANGED <<view, db, db0, nextId, object, response>>
    /\ UNCHANGED hookVars

\* DeleteView.delete, second statement:
\* messages.success(request, self.get_success_message())
DeleteMessage ==
    /\ pc = "delete_message"
    /\ events' = Append(events, [Event("messages.success") EXCEPT
                                   !.text = get_success_message(view, object)])
    /\ pc' = "done"
    /\ UNCHANGED <<view, db, db0, nextId, object, response>>
    /\ UNCHANGED hookVars

\* the response (or exception) is handed back to the framework and the view
\* instance is discarded
Finish ==
    /\ pc = "done"
    /\ pc' = "idle"
    /\ view' = IdleView
    /\ db0' = db
    /\ object' = NoObject
    /\ events' = <<>>
    /\ response' = Resp("none")
    /\ UNCHANGED <<db, nextId>>
    /\ UNCHANGED hookVars

Next ==
    \/ StartRequest
    \/ Dispatch
    \/ IndexGet
    \/ CreateGet
    \/ EditGet
    \/ DeleteGet
    \/ Post
    \/ SaveInstance
    \/ SuccessMessage
    \/ Redirect
    \/ FormInvalid
    \/ Delete
    \/ DeleteMessage
    \/ Finish

Spec == Init /\ [][Next]_vars

\* ===================================================== HookResponseMixin
\* what a registered callable does when called
HookKinds == {"returns_none", "returns_str", "returns_response",
              "returns_duck", "raises"}

PyNone == [type |-> "NoneType", attrs |-> {}, src |-> 0]

\* the value the callable registered at position idx returns
HookReturn(kind, idx) ==
    CASE kind = "returns_none" -> [type |-> "NoneType", attrs |-> {}, src |-> idx]
      [] kind = "returns_str" -> [type |-> "str", attrs |-> {"upper"}, src |-> idx]
      [] kind = "returns_response" ->
            [type |-> "HttpResponse", attrs |-> {"status_code", "content"}, src |-> idx]
      [] kind = "returns_duck" ->
            [type |-> "Duck", attrs |-> {"status_code"}, src |-> idx]
      [] OTHER -> PyNone

hasattr(value, name) == name \in value.attrs

\* variant: the result is tested for being an HttpResponse instance
IsResponse_Instance(result) == result.type = "HttpResponse"

\* the test of run_hook's loop body on a callable's result
IsResponse(result) == hasattr(result, "status_code")

\* hooks.get_hooks(hook_name): the callables of that name, in registry order
get_hooks(name) == registry[name]

\* process startup: a callable is registered under a hook name
Register ==
    /\ hookPc = "startup"
    /\ \E n \in HookNames, k \in HookKinds :
          /\ Len(registry[n]) < MaxHooks
          /\ registry' = [registry EXCEPT ![n] = Append(@, k)]
    /\ UNCHANGED <<hookPc, hookCall, hookIdx, invoked, hookResult>>
    /\ UNCHANGED viewVars

\* run_hook(hook_name, arg) is entered
RunHook ==
    /\ hookPc \in {"startup", "returned", "raised"}
    /\ \E n \in HookNames, a \in HookArgs :
          hookCall' = [name |-> n, arg |-> a]
    /\ hookIdx' = 1
    /\ invoked' = <<>>
    /\ hookResult' = PyNone
    /\ hookPc' = "loop"
    /\ UNCHANGED registry
    /\ UNCHANGED viewVars

\* one iteration of the loop: result = fn(*args); return it when it has a
\* status_code attribute
CallHook ==
    /\ hookPc = "loop"
    /\ hookIdx <= Len(get_hooks(hookCall.name))
    /\ LET fn == get_hooks(hookCall.name)[hookIdx]
           result == HookReturn(fn, hookIdx)
       IN /\ invoked' = Append(invoked, [idx |-> hookIdx, arg |-> hookCall.arg])
          /\ IF fn = "raises"
             THEN /\ hookPc' = "raised"
                  /\ UNCHANGED <<hookIdx, hookResult>>
             ELSE IF IsResponse(result)
             THEN /\ hookPc' = "returned"
                  /\ hookResult' = result
                  /\ UNCHANGED hookIdx
             ELSE /\ hookIdx' = hookIdx + 1
                  /\ UNCHANGED <<hookPc, hookResult>>
    /\ UNCHANGED <<registry, hookCall>>
    /\ UNCHANGED viewVars

\* the loop is exhausted: run_hook falls off its end and returns None
ReturnNone ==
    /\ hookPc = "loop"
    /\ hookIdx > Len(get_hooks(hookCall.name))
    /\ hookResult' = PyNone
    /\ hookPc' = "returned"
    /\ UNCHANGED <<registry, hookCall, hookIdx, invoked>>
    /\ UNCHANGED viewVars

HookNext ==
    \/ Register
    \/ RunHook
    \/ CallHook
    \/ ReturnNone

HookSpec == Init /\ [][HookNext]_vars

\* ================================================================ claims
\* positions of the event log holding one of the given operations
Idx(ops) == {i \in DOMAIN events : events[i].op \in ops}

CheckOps == {"user_has_permission", "user_has_any_permission"}
MutatingOps == {"save_instance", "delete"}
MessageOps == {"messages.success", "messages.error"}

Configured == view.permission_policy.configured
Granted(a) == a \in view.permission_policy.grants
GrantedAny == view.any_permission_required.actions
                 \cap view.permission_policy.grants # {}

\* the request got as far as form validation with the given verdict
Validated(ok) == \E i \in Idx({"is_valid"}) : events[i].ok = ok

\* C1 as stated: for every class configuration, each mutating action of a
\* request is preceded by a permission check that was performed and passed.
C1_Original ==
    \A j \in Idx(MutatingOps) :
        \E i \in Idx(CheckOps) : i < j /\ events[i].ok

\* C1 amended: when a permission policy is configured, every check dispatch
\* is configured to make (permission_required, any_permission_required) has
\* been performed and has passed before any mutating action; when no policy
\* is configured, no check is made at all.
C1_CheckBeforeMutation ==
    /\ \A j \in Idx(MutatingOps) :
         /\ \A i \in Idx(CheckOps) : i < j /\ events[i].ok
         /\ (Configured /\ view.permission_required # None) =>
               /\ Granted(view.permission_required)
               /\ \E i \in Idx({"user_has_permission"}) :
                     i < j /\ events[i].action = view.permission_required
         /\ (Configured /\ ~view.any_permission_required.isNone) =>
               /\ GrantedAny
               /\ \E i \in Idx({"user_has_any_permission"}) : i < j
    /\ ~Configured => Idx(CheckOps) = {}

C1_Witness ==
    /\ pc = "done"
    /\ Configured
    /\ view.permission_required # None
    /\ ~view.any_permission_required.isNone
    /\ Idx(MutatingOps) # {}

\* C2: when a policy is configured and a required check fails, the request
\* ends with PermissionDenied, the base dispatch is never invoked, nothing is
\* saved or deleted, no message is emitted and no redirect is returned; the
\* base dispatch is invoked only if every configured check passes.
C2_DeniedHasNoEffect ==
    /\ ( /\ pc \notin {"idle", "dispatch"}
         /\ Configured
         /\ \/ view.permission_required # None /\ ~Granted(view.permission_required)
            \/ ~view.any_permission_required.isNone /\ ~GrantedAny )
       => /\ pc = "done"
          /\ response.kind = "PermissionDenied"
          /\ Idx({"super_dispatch"} \cup MutatingOps \cup MessageOps \cup {"redirect"}) = {}
          /\ db = db0
    /\ (Configured /\ Idx({"super_dispatch"}) # {})
       => /\ view.permission_required # None => Granted(view.permission_required)
          /\ ~view.any_permission_required.isNone => GrantedAny

C2_Witness ==
    /\ pc = "done"
    /\ response.kind = "PermissionDenied"
    /\ view.permission_required # None
    /\ ~view.any_permission_required.isNone
    /\ Granted(view.permission_required)

\* a CreateView / EditView request that returned from form_valid or
\* form_invalid, or a DeleteView request that returned from delete()
Completed ==
    /\ pc = "done"
    /\ \/ /\ Idx({"is_valid"}) # {}
          /\ response.kind \in {"redirect", "render"}
       \/ /\ view.cls = "DeleteView"
          /\ response.kind = "redirect"

\* C3 as stated: in every completed mutating request, for every configuration
\* of the message templates, the messaging facility is called exactly once.
C3_Original ==
    Completed => Cardinality(Idx(MessageOps)) = 1

\* C3 amended: a completed CreateView / EditView request calls messages.success
\* exactly once on the validated outcome when success_message is set,
\* messages.error exactly once on the invalid outcome when error_message is
\* set, and makes no call when the template is None; a completed DeleteView
\* request calls messages.success exactly once.
C3_OneMessageWhenConfigured ==
    Completed =>
        /\ (view.cls \in {"CreateView", "EditView"} /\ Validated(TRUE)) =>
              /\ Cardinality(Idx({"messages.success"})) =
                    IF view.success_message = None THEN 0 ELSE 1
              /\ Idx({"messages.error"}) = {}
        /\ (view.cls \in {"CreateView", "EditView"} /\ Validated(FALSE)) =>
              /\ Cardinality(Idx({"messages.error"})) =
                    IF view.error_message = None THEN 0 ELSE 1
              /\ Idx({"messages.success"}) = {}
        /\ view.cls = "DeleteView" =>
              /\ Cardinality(Idx({"messages.success"})) = 1
              /\ Idx({"messages.error"}) = {}

C3_Witness ==
    /\ Completed
    /\ view.cls = "EditView"
    /\ Validated(TRUE)
    /\ view.success_message # None
    /\ Idx({"messages.success"}) # {}

\* C4: in any request at most one message call is made in total, and a
\* success message is never emitted on the invalid outcome nor an error
\* message on the validated outcome.
C4_AtMostOneMessage ==
    /\ Cardinality(Idx(MessageOps)) <= 1
    /\ Idx({"messages.success"}) # {} => ~Validated(FALSE)
    /\ Idx({"messages.error"}) # {} => ~Validated(TRUE)
    /\ view.cls = "IndexView" => Idx(MessageOps) = {}

C4_Witness ==
    /\ pc = "done"
    /\ Idx({"messages.error"}) # {}
    /\ Validated(FALSE)

\* C5: every redirect produced by CreateView.form_valid, EditView.form_valid
\* and DeleteView.delete targets reverse(index_url_name) and no other URL.
C5_RedirectToIndex ==
    /\ \A i \in Idx({"redirect"}) :
          events[i].url = [name |-> view.index_url_name, arg |-> 0]
    /\ response.kind = "redirect" =>
          /\ response.url = [name |-> view.index_url_name, arg |-> 0]
          /\ response.url.name = "index"

C5_Witness ==
    /\ pc = "done"
    /\ response.kind = "redirect"
    /\ view.cls = "EditView"
    /\ view.edit_url_name = "edit"

\* the kinds of callable whose result carries a status_code attribute
ResponseKinds == {"returns_response", "returns_duck"}

\* C6: run_hook calls the callables of the hook name in registry order with
\* the given argument, stops at the first whose result has a status_code
\* attribute and returns exactly that result; otherwise every callable is
\* called once and None is returned.
C6_RunHookShortCircuits ==
    LET hs == registry[hookCall.name]
    IN /\ \A i \in DOMAIN invoked :
             /\ invoked[i] = [idx |-> i, arg |-> hookCall.arg]
             /\ i <= Len(hs)
             /\ \A k \in 1..(i - 1) : hs[k] \notin ResponseKinds \cup {"raises"}
       /\ hookPc = "returned" =>
             IF \E k \in DOMAIN hs : hs[k] \in ResponseKinds
             THEN LET f == CHOOSE k \in DOMAIN hs :
                              /\ hs[k] \in ResponseKinds
                              /\ \A m \in 1..(k - 1) : hs[m] \notin ResponseKinds
                  IN /\ Len(invoked) = f
                     /\ hookResult.src = f
                     /\ "status_code" \in hookResult.attrs
                     /\ hookResult.type =
                           IF hs[f] = "returns_response" THEN "HttpResponse" ELSE "Duck"
             ELSE /\ Len(invoked) = Len(hs)
                  /\ hookResult = [type |-> "NoneType", attrs |-> {}, src |-> 0]

C6_Witness ==
    /\ hookPc = "returned"
    /\ Len(registry[hookCall.name]) = 2
    /\ registry[hookCall.name][1] = "returns_duck"
    /\ Len(invoked) = 1
    /\ hookResult.src = 1

\* C7: on the validated outcome of CreateView and EditView save_instance() is
\* called once and completes before any success message, the message is
\* formatted from the saved object and its Edit button refers to the saved
\* object's id, the redirect is built after the message step, and a raising
\* save_instance() leaves no message and no redirect.
C7_PersistMessageRedirect ==
    view.cls \in {"CreateView", "EditView"} =>
        /\ Cardinality(Idx({"save_instance"})) <= 1
        /\ \A i \in Idx({"save_instance"}) : Validated(TRUE)
        /\ \A j \in Idx({"messages.success"}) :
              \E i \in Idx({"save_instance"}) :
                 /\ i < j
                 /\ events[i].ok
                 /\ events[i].id \in DOMAIN db
                 /\ db[events[i].id] = events[i].title
                 /\ events[j].text = [isNone |-> FALSE,
                                      tmpl |-> view.success_message,
                                      arg |-> events[i].title]
                 /\ events[j].url = [name |-> view.edit_url_name,
                                     arg |-> events[i].id]
        /\ \A k \in Idx({"redirect"}) :
              /\ \E i \in Idx({"save_instance"}) : i < k /\ events[i].ok
              /\ \A j \in Idx({"messages.success"}) : j < k
              /\ view.success_message # None => Idx({"messages.success"}) # {}
        /\ response.kind = "redirect" => Idx({"redirect"}) # {}
        /\ (\E i \in Idx({"save_instance"}) : ~events[i].ok) =>
              /\ Idx(MessageOps \cup {"redirect"}) = {}
              /\ response.kind = "SaveError"
              /\ db = db0

C7_Witness ==
    /\ pc = "done"
    /\ view.cls = "CreateView"
    /\ response.kind = "redirect"
    /\ Idx({"messages.success"}) # {}
    /\ object.id = 2

\* C8 as stated: whenever form_invalid is reached nothing is saved, no
\* success message and no redirect is produced, the form is re-rendered and
\* one error message is flashed.
C8_Original ==
    (pc = "done" /\ Validated(FALSE)) =>
        /\ Idx({"save_instance", "messages.success", "redirect"}) = {}
        /\ db = db0
        /\ response.kind = "render"
        /\ Cardinality(Idx({"messages.error"})) = 1

\* C8 amended: whenever form_invalid is reached nothing is saved, no success
\* message and no redirect is produced, the form is re-rendered, and the
\* error message is flashed once when error_message is set and not at all
\* when it is None.
C8_InvalidRerenders ==
    /\ Validated(FALSE) =>
          /\ Idx({"save_instance", "messages.success", "redirect"}) = {}
          /\ db = db0
          /\ pc \in {"form_invalid", "done"}
    /\ (pc = "done" /\ Validated(FALSE)) =>
          /\ response.kind = "render"
          /\ \A i \in Idx({"messages.error"}) :
                events[i].text = [isNone |-> FALSE, tmpl |-> view.error_message,
                                  arg |-> None]
          /\ Cardinality(Idx({"messages.error"})) =
                IF view.error_message = None THEN 0 ELSE 1

C8_Witness ==
    /\ pc = "done"
    /\ Validated(FALSE)
    /\ view.cls = "EditView"
    /\ view.error_message # None
    /\ Idx({"messages.error"}) # {}
    /\ db # <<>>

C9_FailingInput ==
    /\ pc = "done"
    /\ view.cls = "EditView"
    /\ Configured
    /\ view.permission_policy.grants = {"change"}
    /\ response.kind = "render"
    /\ Truthy(response.can_delete)

C10_FailingInput ==
    /\ pc = "done"
    /\ view.cls = "DeleteView"
    /\ view.success_message = None
    /\ \E i \in Idx({"messages.success"}) : events[i].text.isNone

\* C9: the capability flags in the template context are truthy exactly when
\* no policy is configured or the user holds the permission: can_add for
\* 'add' in IndexView, can_delete for 'delete' in EditView.
C9_CapabilityFlags ==
    /\ response.can_add.type # "absent" =>
          (Truthy(response.can_add) <=> (~Configured \/ Granted("add")))
    /\ response.can_delete.type # "absent" =>
          (Truthy(response.can_delete) <=> (~Configured \/ Granted("delete")))

\* C10: no view passes a None message text to the messaging facility.
C10_NoNoneMessage ==
    \A i \in Idx(MessageOps) : ~events[i].text.isNone

====
